---- MODULE Spec2Model ----
(***************************************************************************)
(* Model of asset_analysis-app.py: the fetch -> align -> statistics ->     *)
(* ranking -> correlation -> presentation pipeline of the asset returns    *)
(* analysis tool, together with call harnesses for align_stock_data and    *)
(* calculate_statistics as pure functions.                                 *)
(*                                                                         *)
(* Representation.                                                         *)
(*  - A date is a day number in Dates; NaT is the minimum of an empty      *)
(*    index; None is an absent argument.                                   *)
(*  - A DataFrame of one ticker is a sequence of [date, price] rows,       *)
(*    strictly increasing by date (the index yfinance returns); price is   *)
(*    the value of the designated price column of that row.                *)
(*  - A Python dict is a sequence of entries in insertion order.           *)
(*  - A percentage rounded to 4 decimals is the integer value * 10^4.      *)
(*  - CAGR, volatility, skewness and kurtosis are real-valued and are not  *)
(*    part of the record modelled here.                                    *)
(***************************************************************************)
EXTENDS Integers, Sequences, FiniteSets, TLC

MaxDate == 3

Dates == 1..MaxDate

\* dates the two date_input widgets can deliver (may lie after the data)
CustomDates == 1..(MaxDate + 1)

Prices == {2, 3}

\* prices for the statistics harness: a tiny fall (4000001 -> 4000000),
\* a large fall and rises; none of the ratios is an exact rounding tie
StatPrices == {4000000, 4000001, 6000000}

TickerLists == {<<>>, <<"A">>, <<"A", "B">>}

NaT == 0

None == 0 - 1

PRICE_COLUMNS == <<"Adj Close", "Close">>

\* column sets of a downloaded frame (with and without adjusted close)
ColumnSets == {{"Adj Close", "Close"}, {"Close"}}

ALL_AVAILABLE == "Analyze all data available"

EARLIEST_COMMON == "Analyze from the earliest common date in the dataset"

CUSTOM == "Analyze since a custom date"

AlignOptions == {ALL_AVAILABLE, EARLIEST_COMMON, CUSTOM}

Decimals == 4

VARIABLES pc, tickers, raw_data, columns, data_dict, align_option,
          custom_start_date, custom_end_date, common_start_date,
          align_error, stats_dict, sorted_tickers, correlation_matrix, error

vars == <<pc, tickers, raw_data, columns, data_dict, align_option,
          custom_start_date, custom_end_date, common_start_date,
          align_error, stats_dict, sorted_tickers, correlation_matrix, error>>

-----------------------------------------------------------------------------
(* Data frames and dicts *)

\* all frames over Dates with prices in P, index strictly increasing
SeriesOver(P) ==
    UNION { { s \in [1..n -> [date : Dates, price : P]] :
                \A i \in 1..(n - 1) : s[i].date < s[i + 1].date } :
            n \in 0..MaxDate }

\* {ticker: data[ticker].dropna() for ticker in tickers}
DictsOver(tl, S) ==
    { [i \in 1..Len(tl) |-> [ticker |-> tl[i], data |-> f[i]]] :
        f \in [1..Len(tl) -> S] }

Keys(dd) == [i \in 1..Len(dd) |-> dd[i].ticker]

Range(s) == {s[i] : i \in 1..Len(s)}

Reverse(s) == [i \in 1..Len(s) |-> s[Len(s) + 1 - i]]

\* data.index.min(): NaT on an empty index
IndexMin(data) ==
    IF Len(data) = 0 THEN NaT
    ELSE CHOOSE d \in {data[i].date : i \in 1..Len(data)} :
            \A i \in 1..Len(data) : d <= data[i].date

\* data.index.max()
IndexMax(data) ==
    IF Len(data) = 0 THEN NaT
    ELSE CHOOSE d \in {data[i].date : i \in 1..Len(data)} :
            \A i \in 1..Len(data) : d >= data[i].date

\* Timestamp comparisons; every comparison with NaT is False
PyGt(a, b) == a # NaT /\ b # NaT /\ a > b

PyGe(a, b) == a # NaT /\ b # NaT /\ a >= b

RECURSIVE PyMaxFrom(_, _, _)
PyMaxFrom(s, i, m) ==
    IF i > Len(s) THEN m
    ELSE PyMaxFrom(s, i + 1, IF PyGt(s[i], m) THEN s[i] ELSE m)

\* faulty variant of PyMax: the earliest start instead of the latest
PyMinMutant(s) ==
    IF \E i \in 1..Len(s) : s[i] = NaT THEN NaT
    ELSE CHOOSE d \in Range(s) : \A e \in Range(s) : d <= e

\* builtin max() of a non-empty sequence: keeps the first item unless a
\* later one compares greater
PyMax(s) == PyMaxFrom(s, 2, s[1])

-----------------------------------------------------------------------------
(* align_stock_data *)

\* faulty variant of TrimFrom: strict comparison drops the start row
TrimFromMutant(data, start) ==
    SelectSeq(data, LAMBDA row : PyGt(row.date, start))

\* data[data.index >= common_start_date]
TrimFrom(data, start) ==
    SelectSeq(data, LAMBDA row : PyGe(row.date, start))

\* faulty variant of TrimRange: the end date is excluded
TrimRangeMutant(data, start, end) ==
    SelectSeq(data, LAMBDA row : PyGe(row.date, start) /\ PyGt(end, row.date))

\* data[(data.index >= custom_start_date) & (data.index <= custom_end_date)]
TrimRange(data, start, end) ==
    SelectSeq(data, LAMBDA row : PyGe(row.date, start) /\ PyGe(end, row.date))

\* {ticker: data for ticker, data in data_dict.items() if not data.empty}
DropEmpty(dd) == SelectSeq(dd, LAMBDA e : Len(e.data) > 0)

\* max(data.index.min() for data in data_dict.values()); the caller has
\* checked that dd is not empty
CommonStartDate(dd) == PyMax([i \in 1..Len(dd) |-> IndexMin(dd[i].data)])

\* result: the returned dict; error: st.error("Alignment error: ...") was
\* shown; common_start_date: the local of that name (None when not computed)
align_stock_data(dd, option, start, end) ==
    LET maxRaises == option = EARLIEST_COMMON /\ Len(dd) = 0
        cs == IF option = EARLIEST_COMMON /\ Len(dd) > 0
              THEN CommonStartDate(dd) ELSE None
        trimmed ==
            IF option = EARLIEST_COMMON
            THEN [i \in 1..Len(dd) |->
                    [ticker |-> dd[i].ticker, data |-> TrimFrom(dd[i].data, cs)]]
            ELSE IF option = CUSTOM /\ start # None /\ end # None
            THEN [i \in 1..Len(dd) |->
                    [ticker |-> dd[i].ticker,
                     data |-> TrimRange(dd[i].data, start, end)]]
            ELSE dd
        kept == DropEmpty(trimmed)
    IN  IF maxRaises \/ Len(kept) = 0
        THEN [result |-> <<>>, error |-> TRUE, common_start_date |-> cs]
        ELSE [result |-> kept, error |-> FALSE, common_start_date |-> cs]

-----------------------------------------------------------------------------
(* The pipeline *)

Init ==
    /\ pc = "start"
    /\ tickers = <<>>
    /\ raw_data = <<>>
    /\ columns = {}
    /\ data_dict = <<>>
    /\ align_option = ALL_AVAILABLE
    /\ custom_start_date = None
    /\ custom_end_date = None
    /\ common_start_date = None
    /\ align_error = FALSE
    /\ stats_dict = <<>>
    /\ sorted_tickers = <<>>
    /\ correlation_matrix = <<>>
    /\ error = ""

\* lines 164-169: read the ticker list and fetch; an empty list or a failed
\* fetch (None) ends the run
Fetch ==
    /\ pc = "start"
    /\ \E tl \in TickerLists :
        /\ tickers' = tl
        /\ IF tl = <<>>
           THEN /\ pc' = "done"
                /\ UNCHANGED <<raw_data, columns, data_dict>>
           ELSE \/ /\ pc' = "halted"
                   /\ UNCHANGED <<raw_data, columns, data_dict>>
                \/ \E dd \in DictsOver(tl, SeriesOver(Prices)), cols \in ColumnSets :
                    /\ raw_data' = dd
                    /\ data_dict' = dd
                    /\ columns' = cols
                    /\ pc' = "align"
    /\ UNCHANGED <<align_option, custom_start_date, custom_end_date,
                   common_start_date, align_error, stats_dict, sorted_tickers,
                   correlation_matrix, error>>

\* lines 170-200: choose the option, align, and test the result
SelectAndAlign ==
    /\ pc = "align"
    /\ \E option \in AlignOptions, start \in CustomDates, end \in CustomDates :
        /\ align_option' = option
        /\ IF option = CUSTOM
           THEN /\ start <= end
                /\ custom_start_date' = start
                /\ custom_end_date' = end
           ELSE /\ start = 1 /\ end = 1
                /\ UNCHANGED <<custom_start_date, custom_end_date>>
        /\ IF option = ALL_AVAILABLE
           THEN /\ UNCHANGED <<data_dict, align_error, common_start_date>>
                /\ pc' = IF Len(data_dict) > 0 THEN "stats" ELSE "halted"
           ELSE LET r == IF option = CUSTOM
                         THEN align_stock_data(data_dict, option, start, end)
                         ELSE align_stock_data(data_dict, option, None, None)
                IN  /\ data_dict' = r.result
                    /\ align_error' = r.error
                    /\ common_start_date' = r.common_start_date
                    /\ pc' = IF Len(r.result) > 0 THEN "stats" ELSE "halted"
    /\ UNCHANGED <<tickers, raw_data, columns, stats_dict, sorted_tickers,
                   correlation_matrix, error>>

-----------------------------------------------------------------------------
(* Arithmetic on quotients of integers *)

Abs(x) == IF x < 0 THEN 0 - x ELSE x

\* long division: k further decimal digits of a quotient q with remainder r
RECURSIVE LongDiv(_, _, _, _)
LongDiv(q, r, den, k) ==
    IF k = 0 THEN <<q, r>>
    ELSE LongDiv(q * 10 + ((r * 10) \div den), (r * 10) % den, den, k - 1)

\* round(num / den * 100, Decimals) as an integer number of 10^-Decimals:
\* round half to even, symmetric in the sign
RoundPct(num, den) ==
    LET a == Abs(num)
        d == LongDiv(a \div den, a % den, den, 2 + Decimals)
        q == d[1]
        r == d[2]
        m == IF 2 * r > den THEN q + 1
             ELSE IF 2 * r < den THEN q
             ELSE IF q % 2 = 0 THEN q ELSE q + 1
    IN  IF num < 0 THEN 0 - m ELSE m

\* a / b < c / d for a, c >= 0 and b, d > 0, by the Euclidean expansion
RECURSIVE FracLess(_, _, _, _)
FracLess(a, b, c, d) ==
    LET qa == a \div b
        qc == c \div d
        ra == a % b
        rc == c % d
    IN  IF qa # qc THEN qa < qc
        ELSE IF rc = 0 THEN FALSE
        ELSE IF ra = 0 THEN TRUE
        ELSE FracLess(d, rc, b, ra)

-----------------------------------------------------------------------------
(* calculate_statistics *)

EmptyRecord == <<>>

IsEmpty(rec) == DOMAIN rec = {}

\* next((col for col in PRICE_COLUMNS if col in data.columns), None)
PriceCol(cols) ==
    IF \E i \in 1..Len(PRICE_COLUMNS) : PRICE_COLUMNS[i] \in cols
    THEN PRICE_COLUMNS[CHOOSE i \in 1..Len(PRICE_COLUMNS) :
                          /\ PRICE_COLUMNS[i] \in cols
                          /\ \A j \in 1..(i - 1) : PRICE_COLUMNS[j] \notin cols]
    ELSE "None"

\* data[price_column].cummax()
RollingMax(data) ==
    [i \in 1..Len(data) |->
        CHOOSE m \in {data[j].price : j \in 1..i} :
            \A j \in 1..i : m >= data[j].price]

\* (data[price_column] - rolling_max) / rolling_max, kept as price and peak
Drawdowns(data) ==
    [i \in 1..Len(data) |-> [price |-> data[i].price, peak |-> RollingMax(data)[i]]]

\* faulty variant of MinOfDrawdowns: drawdowns.max()
MaxOfDrawdownsMutant(dd) ==
    dd[CHOOSE i \in 1..Len(dd) :
          \A j \in 1..Len(dd) :
              ~FracLess(dd[i].price, dd[i].peak, dd[j].price, dd[j].peak)]

\* drawdowns.min(): the entry whose price / peak is least
MinOfDrawdowns(dd) ==
    dd[CHOOSE i \in 1..Len(dd) :
          \A j \in 1..Len(dd) :
              ~FracLess(dd[j].price, dd[j].peak, dd[i].price, dd[i].peak)]

\* data[price_column].pct_change().dropna(): one return per row but the
\* first, kept as the pair (price, previous price)
DailyReturns(data) ==
    [i \in 1..(Len(data) - 1) |-> [price |-> data[i + 1].price, prev |-> data[i].price]]

\* faulty variant of DailyReturnsGuard: a single return is accepted
DailyReturnsGuardMutant(daily_returns) == Len(daily_returns) < 1

\* if len(daily_returns) < 2
DailyReturnsGuard(daily_returns) == Len(daily_returns) < 2

\* data carries 'Cumulative Return' = price / first price - 1 (line 205);
\* final_value is its last entry, here (last - first) / first
calculate_statistics(data, price_column) ==
    IF Len(data) < 2 THEN EmptyRecord
    ELSE
        LET first == data[1].price
            last == data[Len(data)].price
            max_drawdown == MinOfDrawdowns(Drawdowns(data))
            daily_returns == DailyReturns(data)
        IN  IF DailyReturnsGuard(daily_returns) THEN EmptyRecord
            ELSE \* "Days" stands for "Years" = days / 365.25
                 ("Start Date" :> IndexMin(data)) @@
                 ("End Date" :> IndexMax(data)) @@
                 ("Days" :> (IndexMax(data) - IndexMin(data))) @@
                 ("Max Drawdown (%)" :>
                     RoundPct(max_drawdown.price - max_drawdown.peak,
                              max_drawdown.peak)) @@
                 ("Cumulative Return (%)" :> RoundPct(last - first, first))

\* lines 201-206: the loop over data_dict.items(); data[price_col].iloc[0]
\* raises IndexError on an empty frame and ends the loop
RECURSIVE StatsLoop(_, _, _, _)
StatsLoop(dd, cols, i, acc) ==
    IF i > Len(dd) THEN [stats |-> acc, error |-> ""]
    ELSE IF PriceCol(cols) = "None" THEN StatsLoop(dd, cols, i + 1, acc)
    ELSE IF Len(dd[i].data) = 0
         THEN [stats |-> acc, error |-> "IndexError line 205"]
    ELSE StatsLoop(dd, cols, i + 1,
            Append(acc, [ticker |-> dd[i].ticker,
                         record |-> calculate_statistics(dd[i].data, PriceCol(cols))]))

ComputeStatistics ==
    /\ pc = "stats"
    /\ LET r == StatsLoop(data_dict, columns, 1, <<>>)
       IN  /\ stats_dict' = r.stats
           /\ error' = r.error
           /\ pc' = IF r.error = "" THEN "rank" ELSE "crashed"
    /\ UNCHANGED <<tickers, raw_data, columns, data_dict, align_option,
                   custom_start_date, custom_end_date, common_start_date,
                   align_error, sorted_tickers, correlation_matrix>>

-----------------------------------------------------------------------------
(* Ranking *)

\* list.sort on a list of [item, key] entries (the keys are computed once,
\* before sorting): a stable ascending sort
RECURSIVE InsertByKey(_, _)
InsertByKey(x, s) ==
    IF s = <<>> THEN <<x>>
    ELSE IF x.key < s[1].key THEN <<x>> \o s
    ELSE <<s[1]>> \o InsertByKey(x, Tail(s))

RECURSIVE StableSort(_)
StableSort(s) ==
    IF s = <<>> THEN <<>>
    ELSE InsertByKey(s[Len(s)], StableSort(SubSeq(s, 1, Len(s) - 1)))

\* faulty variant of SortedReverse: sort ascending, then reverse, which
\* reverses the order of equal keys
SortedReverseMutant(s) == Reverse(StableSort(s))

\* sorted(..., reverse=True): reverse, stable sort, reverse again, so equal
\* keys keep their original order
SortedReverse(s) == Reverse(StableSort(Reverse(s)))

RecordOf(sd, t) == (CHOOSE e \in Range(sd) : e.ticker = t).record

\* lines 209-219: stats_dict[x]["Cumulative Return (%)"] raises KeyError on
\* an empty record; then the statistics table is shown in rank order
Rank ==
    /\ pc = "rank"
    /\ IF \E e \in Range(stats_dict) : "Cumulative Return (%)" \notin DOMAIN e.record
       THEN /\ error' = "KeyError line 211"
            /\ pc' = "crashed"
            /\ UNCHANGED sorted_tickers
       ELSE /\ sorted_tickers' =
                  LET keyed == [i \in 1..Len(stats_dict) |->
                                  [item |-> stats_dict[i].ticker,
                                   key |-> stats_dict[i].record["Cumulative Return (%)"]]]
                      ranked == SortedReverse(keyed)
                  IN  [i \in 1..Len(ranked) |-> ranked[i].item]
            /\ pc' = "corr"
            /\ UNCHANGED error
    /\ UNCHANGED <<tickers, raw_data, columns, data_dict, align_option,
                   custom_start_date, custom_end_date, common_start_date,
                   align_error, stats_dict, correlation_matrix>>

-----------------------------------------------------------------------------
(* Correlation and presentation *)

\* the columns of daily_returns: tickers whose frame has 'Adj Close'
ReturnColumns(dd, cols) ==
    SelectSeq(Keys(dd), LAMBDA t : "Adj Close" \in cols)

\* correlation_matrix.loc[sorted_tickers, sorted_tickers]: KeyError when a
\* requested label is not an axis label; else both axes in the given order
calculate_correlation_table(dd, cols, ranked) ==
    LET labels == ReturnColumns(dd, cols)
    IN  IF \E i \in 1..Len(ranked) : ranked[i] \notin Range(labels)
        THEN [error |-> "KeyError line 113", index |-> <<>>, columns |-> <<>>]
        ELSE [error |-> "",
              index |-> [i \in 1..Len(ranked) |->
                           CHOOSE l \in Range(labels) : l = ranked[i]],
              columns |-> [i \in 1..Len(ranked) |->
                           CHOOSE l \in Range(labels) : l = ranked[i]]]

\* lines 221-231: only with more than one ticker left in data_dict
Correlate ==
    /\ pc = "corr"
    /\ IF Len(data_dict) > 1
       THEN LET m == calculate_correlation_table(data_dict, columns, sorted_tickers)
            IN  IF m.error # ""
                THEN /\ error' = m.error
                     /\ pc' = "crashed"
                     /\ UNCHANGED correlation_matrix
                ELSE /\ correlation_matrix' = <<[index |-> m.index, columns |-> m.columns]>>
                     /\ pc' = "plot"
                     /\ UNCHANGED error
       ELSE /\ pc' = "plot"
            /\ UNCHANGED <<correlation_matrix, error>>
    /\ UNCHANGED <<tickers, raw_data, columns, data_dict, align_option,
                   custom_start_date, custom_end_date, common_start_date,
                   align_error, stats_dict, sorted_tickers>>

\* lines 233-234: plot_cumulative_returns reads data_dict[ticker] and
\* stats_dict[ticker]['Cumulative Return (%)'] of every ranked ticker; every
\* ranked ticker is a key of both and has that field, so no lookup fails
PlotCumulativeReturns ==
    /\ pc = "plot"
    /\ pc' = "info"
    /\ UNCHANGED <<tickers, raw_data, columns, data_dict, align_option,
                   custom_start_date, custom_end_date, common_start_date,
                   align_error, stats_dict, sorted_tickers, correlation_matrix,
                   error>>

\* lines 236-241: fetch_ticker_info never raises; descriptions are shown
ShowTickerDescriptions ==
    /\ pc = "info"
    /\ pc' = "done"
    /\ UNCHANGED <<tickers, raw_data, columns, data_dict, align_option,
                   custom_start_date, custom_end_date, common_start_date,
                   align_error, stats_dict, sorted_tickers, correlation_matrix,
                   error>>

Next ==
    \/ Fetch
    \/ SelectAndAlign
    \/ ComputeStatistics
    \/ Rank
    \/ Correlate
    \/ PlotCumulativeReturns
    \/ ShowTickerDescriptions

Spec == Init /\ [][Next]_vars

-----------------------------------------------------------------------------
(* align_stock_data called on its own, with any arguments *)

InitAlign ==
    /\ pc = "align_call"
    /\ tickers \in TickerLists
    /\ raw_data \in DictsOver(tickers, SeriesOver(Prices))
    /\ data_dict = raw_data
    /\ columns \in ColumnSets
    /\ align_option \in AlignOptions
    /\ custom_start_date \in IF align_option = CUSTOM
                             THEN CustomDates \cup {None} ELSE {None}
    /\ custom_end_date \in IF align_option = CUSTOM
                           THEN CustomDates \cup {None} ELSE {None}
    /\ common_start_date = None
    /\ align_error = FALSE
    /\ stats_dict = <<>>
    /\ sorted_tickers = <<>>
    /\ correlation_matrix = <<>>
    /\ error = ""

AlignCall ==
    /\ pc = "align_call"
    /\ LET r == align_stock_data(data_dict, align_option,
                                 custom_start_date, custom_end_date)
       IN  /\ data_dict' = r.result
           /\ align_error' = r.error
           /\ common_start_date' = r.common_start_date
    /\ pc' = "align_returned"
    /\ UNCHANGED <<tickers, raw_data, columns, align_option, custom_start_date,
                   custom_end_date, stats_dict, sorted_tickers,
                   correlation_matrix, error>>

NextAlign == AlignCall

SpecAlign == InitAlign /\ [][NextAlign]_vars

-----------------------------------------------------------------------------
(* calculate_statistics called on its own, on any frame *)

InitStats ==
    /\ pc = "stats_call"
    /\ tickers = <<"A">>
    /\ raw_data \in DictsOver(tickers, SeriesOver(StatPrices))
    /\ data_dict = raw_data
    /\ columns \in ColumnSets
    /\ align_option = ALL_AVAILABLE
    /\ custom_start_date = None
    /\ custom_end_date = None
    /\ common_start_date = None
    /\ align_error = FALSE
    /\ stats_dict = <<>>
    /\ sorted_tickers = <<>>
    /\ correlation_matrix = <<>>
    /\ error = ""

StatisticsCall ==
    /\ pc = "stats_call"
    /\ stats_dict' =
          [i \in 1..Len(data_dict) |->
              [ticker |-> data_dict[i].ticker,
               record |-> calculate_statistics(data_dict[i].data, PriceCol(columns))]]
    /\ pc' = "stats_returned"
    /\ UNCHANGED <<tickers, raw_data, columns, data_dict, align_option,
                   custom_start_date, custom_end_date, common_start_date,
                   align_error, sorted_tickers, correlation_matrix, error>>

NextStats == StatisticsCall

SpecStats == InitStats /\ [][NextStats]_vars

-----------------------------------------------------------------------------
(* Properties *)

RawOf(t) == (CHOOSE e \in Range(raw_data) : e.ticker = t).data

DatesOf(data) == {data[i].date : i \in 1..Len(data)}

IsIncreasing(data) == \A i \in 1..(Len(data) - 1) : data[i].date < data[i + 1].date

AllRawNonEmpty == Len(raw_data) > 0 /\ \A i \in 1..Len(raw_data) : Len(raw_data[i].data) > 0

\* the latest of the first dates of the fetched series
MaxOfStarts ==
    CHOOSE d \in Dates :
        /\ \E i \in 1..Len(raw_data) : raw_data[i].data[1].date = d
        /\ \A i \in 1..Len(raw_data) : raw_data[i].data[1].date <= d

EarliestCommonReturned ==
    pc = "align_returned" /\ align_option = EARLIEST_COMMON /\ AllRawNonEmpty

\* C1: under the earliest-common-date policy on non-empty series, the common
\* start date is the maximum of the series' minimum dates, every output
\* series is exactly the input rows dated on or after it, and no output
\* series starts before it.
C1_EarliestCommonDateTrim ==
    EarliestCommonReturned =>
        /\ common_start_date = MaxOfStarts
        /\ \A i \in 1..Len(data_dict) :
            LET out == data_dict[i].data
                in == RawOf(data_dict[i].ticker)
            IN  /\ Range(out) = {row \in Range(in) : row.date >= MaxOfStarts}
                /\ IsIncreasing(out)
                /\ out[1].date >= MaxOfStarts

\* C1 witness: A starts on day 1, B on day 2, both have day 2; after the
\* call both start on day 2 and A has lost its first row
C1_Witness ==
    /\ EarliestCommonReturned
    /\ Len(raw_data) = 2 /\ Len(data_dict) = 2
    /\ raw_data[1].data[1].date = 1
    /\ raw_data[2].data[1].date = 2
    /\ data_dict[1].data[1].date = 2
    /\ data_dict[2].data[1].date = 2
    /\ Len(data_dict[1].data) < Len(raw_data[1].data)

\* C10: under the earliest-common-date policy on non-empty series no
\* alignment error is signalled, the result is not empty, a ticker is
\* dropped only if its whole series lies before the common start, and the
\* series that starts latest is returned unchanged.
C10_EarliestCommonNeverEmpty ==
    EarliestCommonReturned =>
        /\ ~align_error
        /\ Len(data_dict) > 0
        /\ \A i \in 1..Len(raw_data) :
            /\ raw_data[i].ticker \notin Range(Keys(data_dict))
                  => \A d \in DatesOf(raw_data[i].data) : d < MaxOfStarts
            /\ raw_data[i].data[1].date = MaxOfStarts
                  => \E j \in 1..Len(data_dict) :
                        /\ data_dict[j].ticker = raw_data[i].ticker
                        /\ data_dict[j].data = raw_data[i].data

\* C10 witness: A lies wholly before B's start and is dropped; B is returned
\* unchanged and no error is signalled
C10_Witness ==
    /\ EarliestCommonReturned
    /\ Len(raw_data) = 2
    /\ ~align_error
    /\ Keys(data_dict) = <<"B">>
    /\ data_dict[1].data = raw_data[2].data
    /\ Len(raw_data[2].data) >= 2

\* C7: under the custom-date-range policy with start <= end every output
\* series is exactly the input rows with start <= date <= end; with the
\* start or the end unspecified no series is trimmed.
C7_CustomRangeInclusive ==
    (pc = "align_returned" /\ align_option = CUSTOM) =>
        \A i \in 1..Len(data_dict) :
            LET out == data_dict[i].data
                in == RawOf(data_dict[i].ticker)
            IN  IF custom_start_date = None \/ custom_end_date = None
                THEN out = in
                ELSE custom_start_date <= custom_end_date =>
                        /\ Range(out) = {row \in Range(in) :
                                            /\ custom_start_date <= row.date
                                            /\ row.date <= custom_end_date}
                        /\ IsIncreasing(out)

\* C7 witness: a series on days 1, 2, 3 cut to the range [2, 3] keeps both
\* boundary days
C7_Witness ==
    /\ pc = "align_returned" /\ align_option = CUSTOM
    /\ custom_start_date = 2 /\ custom_end_date = 3
    /\ Len(data_dict) >= 1
    /\ DatesOf(RawOf(data_dict[1].ticker)) = {1, 2, 3}
    /\ DatesOf(data_dict[1].data) = {2, 3}

\* the series that the chosen policy yields for one fetched series
PolicyTrim(data) ==
    IF align_option = EARLIEST_COMMON THEN TrimFrom(data, CommonStartDate(raw_data))
    ELSE IF align_option = CUSTOM THEN TrimRange(data, custom_start_date, custom_end_date)
    ELSE data

AlignmentStageDone == pc \notin {"start", "align"} /\ Len(raw_data) > 0

\* C2: if alignment leaves every series empty, an alignment error is
\* signalled and the run halts there: no statistics, ranking, correlation
\* or chart step is executed.
C2_AllEmptyHalts ==
    (AlignmentStageDone /\ \A i \in 1..Len(raw_data) : PolicyTrim(raw_data[i].data) = <<>>)
        => (align_error /\ pc = "halted")

\* C6: under every alignment policy the dataset handed to the statistics
\* stage contains no empty series.
C6_NoEmptySeriesToStatistics ==
    pc = "stats" => \A i \in 1..Len(data_dict) : Len(data_dict[i].data) > 0

HasEmptyRecord == \E i \in 1..Len(stats_dict) : IsEmpty(stats_dict[i].record)

WithRecord == {stats_dict[i].ticker : i \in {j \in 1..Len(stats_dict) : ~IsEmpty(stats_dict[j].record)}}

StatisticsStageDone ==
    pc \in {"corr", "plot", "info", "done", "crashed"} /\ error # "IndexError line 205"

\* C3: when calculate_statistics returned an empty record for some ticker,
\* the run does not crash and the remaining tickers are ranked and passed on.
C3_EmptyRecordIsolated ==
    (StatisticsStageDone /\ HasEmptyRecord) =>
        (pc # "crashed" /\ Range(sorted_tickers) = WithRecord)

RankingProduced ==
    \/ pc \in {"corr", "plot", "info", "done"}
    \/ pc = "crashed" /\ error = "KeyError line 113"

CumRet(t) == RecordOf(stats_dict, t)["Cumulative Return (%)"]

InputPos(t) == CHOOSE i \in 1..Len(tickers) : tickers[i] = t

C5_CorrelationAxesAreRanking ==
    (Len(data_dict) > 1 /\ pc \in {"plot", "info", "done", "crashed"}
        /\ error \notin {"IndexError line 205", "KeyError line 211"}) =>
        /\ pc # "crashed"
        /\ correlation_matrix =
              <<[index |-> sorted_tickers, columns |-> sorted_tickers]>>

StatsReturned == pc = "stats_returned" /\ Len(stats_dict) = 1

NumObservations == Len(data_dict[1].data)

NumDailyReturns == IF NumObservations = 0 THEN 0 ELSE NumObservations - 1

\* C8: calculate_statistics returns a non-empty record only for a series
\* with at least 2 observations and at least 2 daily returns, and the empty
\* record for every other series.
C8_RecordNeedsTwoReturns ==
    StatsReturned =>
        /\ ~IsEmpty(stats_dict[1].record)
              => (NumObservations >= 2 /\ NumDailyReturns >= 2)
        /\ (NumObservations < 2 \/ NumDailyReturns < 2)
              => IsEmpty(stats_dict[1].record)

\* C8 witness: a series of exactly 2 prices got the empty record
C8_Witness ==
    /\ StatsReturned
    /\ NumObservations = 2
    /\ IsEmpty(stats_dict[1].record)

PricesOf(data) == [i \in 1..Len(data) |-> data[i].price]

NonDecreasing(p) == \A i \in 1..(Len(p) - 1) : p[i] <= p[i + 1]

PeakAt(p, i) == CHOOSE m \in {p[j] : j \in 1..i} : \A j \in 1..i : m >= p[j]

MaxDrawdownPct == stats_dict[1].record["Max Drawdown (%)"]

HasRecord == StatsReturned /\ ~IsEmpty(stats_dict[1].record)

\* C9 as stated: the reported 'Max Drawdown (%)' is <= 0 and is 0 only if
\* the price series is non-decreasing throughout.
C9_ZeroDrawdownOnlyIfNonDecreasing ==
    HasRecord =>
        /\ MaxDrawdownPct <= 0
        /\ MaxDrawdownPct = 0 => NonDecreasing(PricesOf(data_dict[1].data))

\* C9 amended: the reported 'Max Drawdown (%)' is <= 0 and is 0 only if no
\* price lies more than 0.00005 % below the running maximum, that is, only
\* if the maximum drawdown rounds to 0.0000.
C9_ZeroDrawdownOnlyIfWithinRounding ==
    HasRecord =>
        LET p == PricesOf(data_dict[1].data)
        IN  /\ MaxDrawdownPct <= 0
            /\ MaxDrawdownPct = 0 =>
                  \A i \in 1..Len(p) :
                      PeakAt(p, i) - p[i] <= PeakAt(p, i) \div (2 * 10 ^ (2 + Decimals))

\* C9 witness: a series with a fall whose reported maximum drawdown is 0
C9_Witness ==
    /\ HasRecord
    /\ MaxDrawdownPct = 0
    /\ ~NonDecreasing(PricesOf(data_dict[1].data))

====
